---- MODULE Spec2Model ----
(***************************************************************************)
(* Model of utf-rnn (src/src/main.rs, src/src/test.rs): a three-layer      *)
(* perceptron is trained on a literal dataset, the whole training is       *)
(* retried until an attempt reaches 100% test accuracy, and the trained    *)
(* model is then applied once to the input [13, 22].                       *)
(*                                                                         *)
(* Abstractions.  Random initialisation and the SGD update are choices     *)
(* from a finite family of integer parameter sets (LinearInits); on that   *)
(* family every tensor value is a small integer, which f32 represents      *)
(* exactly, so the forward pass is computed exactly.  The accuracy         *)
(* arithmetic of train() is computed in emulated f32 (24-bit mantissa,     *)
(* round to nearest even).  The training loss is a value the model does    *)
(* not track.  Every `?` of the source is a possible backend error.        *)
(***************************************************************************)
EXTENDS Integers, Sequences, FiniteSets, TLC

\* ------------------------------------------------------------------ bounds
\* The counters of "Trying to train" and "Error:" lines saturate here; the
\* retry loop itself has no bound.
MaxAttempts == 2

\* --------------------------------------------------------- program constants
VOTE_DIM == 2
RESULTS == 1
EPOCHS == 10
LAYER1_OUT_SIZE == 4
LAYER2_OUT_SIZE == 2

NotTrainedMsg == "The model is not trained well enough."
BackendMsg == "backend error"

\* ------------------------------------------------------------ f32 emulation
\* A non-negative f32 is [m, e] with value m * 2^e, 2^23 <= m < 2^24, or zero.
Pow2(n) == 2 ^ n

F32Zero == [m |-> 0, e |-> 0]

\* a / b rounded to the nearest integer, ties to even
RoundDiv(a, b) ==
    LET q == a \div b
        r == a % b
    IN  IF 2 * r > b \/ (2 * r = b /\ q % 2 = 1) THEN q + 1 ELSE q

\* the least s >= 0 with a * 2^s >= b * 2^23   (for 0 < a, a < b * 2^24)
ShiftUp(a, b) ==
    CHOOSE s \in 0..30 :
        /\ a * Pow2(s) >= b * Pow2(23)
        /\ s > 0 => a * Pow2(s - 1) < b * Pow2(23)

\* the least s >= 0 with a < 2^24 * 2^s   (for a < 2^31)
ShiftDown(a) ==
    CHOOSE s \in 0..7 :
        /\ a \div Pow2(s) < Pow2(24)
        /\ s > 0 => a \div Pow2(s - 1) >= Pow2(24)

Renorm(mant, ex) == IF mant = Pow2(24) THEN [m |-> Pow2(23), e |-> ex + 1]
                   ELSE [m |-> mant, e |-> ex]

\* the f32 nearest to the integer a >= 0  (`as f32`, float literals)
F32OfInt(a) ==
    IF a = 0 THEN F32Zero
    ELSE IF a < Pow2(23)
         THEN LET s == ShiftUp(a, 1) IN [m |-> a * Pow2(s), e |-> 0 - s]
         ELSE LET s == ShiftDown(a)
              IN  Renorm(RoundDiv(a, Pow2(s)), s)

\* f32 division of the integer-valued floats a / b, 0 <= a <= b, b > 0
F32Div(a, b) ==
    IF a = 0 THEN F32Zero
    ELSE LET s == ShiftUp(a, b)
         IN  Renorm(RoundDiv(a * Pow2(s), b), 0 - s)

\* f32 product c * x for a small integer-valued float c
F32MulInt(c, x) ==
    IF x.m = 0 \/ c = 0 THEN F32Zero
    ELSE LET p == c * x.m
             s == ShiftDown(p)
         IN  Renorm(RoundDiv(p, Pow2(s)), x.e + s)

F32Lt(x, y) ==
    IF y.m = 0 THEN FALSE
    ELSE IF x.m = 0 THEN TRUE
    ELSE x.e < y.e \/ (x.e = y.e /\ x.m < y.m)

\* the hundredths printed by {:5.2}: the value rounded to two decimals
Fmt2(x) ==
    IF x.m = 0 THEN 0
    ELSE IF x.e >= 0 THEN 100 * x.m * Pow2(x.e)
    ELSE RoundDiv(100 * x.m, Pow2(0 - x.e))

\* ------------------------------------------------------------- tensor ops
\* Tensors are sequences of rows; SubSeq(f, 1, n) is f written out as the
\* sequence of its n elements.
Dot(u, v) ==
    LET S[n \in 0..Len(u)] == IF n = 0 THEN 0 ELSE S[n - 1] + u[n] * v[n]
    IN  S[Len(u)]

\* Tensor::from_vec(vec, (rows, cols)) fails unless the shape fits the buffer
ShapeFits(vec, rows, cols) == rows * cols = Len(vec)

FromVec2(vec, rows, cols) ==
    SubSeq([r \in 1..rows |->
              SubSeq([c \in 1..cols |-> vec[(r - 1) * cols + c]], 1, cols)],
           1, rows)

\* Linear::forward: xs * weight^T + bias, row by row
LinearForward(ln, xs) ==
    SubSeq([r \in 1..Len(xs) |->
              SubSeq([o \in 1..Len(ln.weight) |->
                        Dot(xs[r], ln.weight[o]) + ln.bias[o]],
                     1, Len(ln.weight))],
           1, Len(xs))

Relu(xs) ==
    SubSeq([r \in 1..Len(xs) |->
              SubSeq([c \in 1..Len(xs[r]) |->
                        IF xs[r][c] > 0 THEN xs[r][c] ELSE 0],
                     1, Len(xs[r]))],
           1, Len(xs))

\* argmax over the last dimension: 0-based index of the first maximum
ArgMaxRow(row) ==
    (CHOOSE i \in 1..Len(row) :
        /\ \A j \in 1..Len(row) : row[j] <= row[i]
        /\ \A j \in 1..(i - 1) : row[j] < row[i]) - 1

ArgMax(xs) == SubSeq([r \in 1..Len(xs) |-> ArgMaxRow(xs[r])], 1, Len(xs))

\* eq(..).to_dtype(F32).sum_all(): the number of positions that agree
SumEq(preds, labels) ==
    Cardinality({r \in 1..Len(labels) : preds[r] = labels[r]})

\* --------------------------------------------------------------- the model
NoLinear == [weight |-> <<>>, bias |-> <<>>]
NoModel == [ln1 |-> NoLinear, ln2 |-> NoLinear, ln3 |-> NoLinear]

InitPatterns == {"alt", "negalt", "bias"}

\* candle_nn::linear(in_dim, out_dim, vs): a freshly initialised layer.  The
\* random initialisation is a choice among three integer parameter sets.
LinearInit(in_dim, out_dim, pat) ==
    [weight |->
        SubSeq([o \in 1..out_dim |->
                  SubSeq([i \in 1..in_dim |->
                            IF pat = "alt"
                            THEN (IF (o + i) % 2 = 0 THEN 1 ELSE -1)
                            ELSE IF pat = "negalt"
                                 THEN (IF (o + i) % 2 = 0 THEN -1 ELSE 1)
                            ELSE 0],
                         1, in_dim)],
               1, out_dim),
     bias |-> SubSeq([o \in 1..out_dim |-> IF pat = "bias" THEN o ELSE 0],
                     1, out_dim)]

LinearInits(in_dim, out_dim) ==
    {LinearInit(in_dim, out_dim, pat) : pat \in InitPatterns}

\* mutant: the output layer is one class wider
MLPNewThreeClasses ==
    {[ln1 |-> a, ln2 |-> b, ln3 |-> c] :
        a \in LinearInits(VOTE_DIM, LAYER1_OUT_SIZE),
        b \in LinearInits(LAYER1_OUT_SIZE, LAYER2_OUT_SIZE),
        c \in LinearInits(LAYER2_OUT_SIZE, RESULTS + 2)}

\* MultiLevelPerceptron::new, for every outcome of the initialisation
MLPNew ==
    {[ln1 |-> a, ln2 |-> b, ln3 |-> c] :
        a \in LinearInits(VOTE_DIM, LAYER1_OUT_SIZE),
        b \in LinearInits(LAYER1_OUT_SIZE, LAYER2_OUT_SIZE),
        c \in LinearInits(LAYER2_OUT_SIZE, RESULTS + 1)}

\* MultiLevelPerceptron::forward
Forward(mdl, xs) ==
    LET x1 == LinearForward(mdl.ln1, xs)
        x2 == Relu(x1)
        x3 == LinearForward(mdl.ln2, x2)
        x4 == Relu(x3)
    IN  LinearForward(mdl.ln3, x4)

\* SGD::backward_step: every parameter moves against its gradient; the
\* parameters after the step are any parameter set of the same shapes.
SameShape(a, b) ==
    /\ Len(a.weight) = Len(b.weight)
    /\ Len(a.weight[1]) = Len(b.weight[1])
    /\ Len(a.bias) = Len(b.bias)

BackwardStep(mdl) ==
    {p \in MLPNew : /\ SameShape(p.ln1, mdl.ln1)
                    /\ SameShape(p.ln2, mdl.ln2)
                    /\ SameShape(p.ln3, mdl.ln3)}

\* ------------------------------------------------------------ literal data
train_votes_vec == <<15, 10, 10, 15, 5, 12, 30, 20, 16, 12, 13, 25, 6, 14, 31, 21>>
train_results_vec == <<1, 0, 0, 1, 1, 0, 0, 1>>
test_votes_vec == <<13, 9, 8, 14, 3, 10>>
test_results_vec == <<1, 0, 0>>
real_world_votes == <<13, 22>>

NoDataset == [train_votes |-> <<>>, train_results |-> <<>>,
              test_votes |-> <<>>, test_results |-> <<>>]

\* mutant: the feature tensors get one row per buffer element
BuildDatasetRowPerVote ==
    [train_votes |-> FromVec2(train_votes_vec, Len(train_votes_vec), 1),
     train_results |-> train_results_vec,
     test_votes |-> FromVec2(test_votes_vec, Len(test_votes_vec), 1),
     test_results |-> test_results_vec]

\* the Dataset built by main (and by the test `simplified`)
BuildDataset ==
    [train_votes |-> FromVec2(train_votes_vec,
                              Len(train_votes_vec) \div VOTE_DIM, VOTE_DIM),
     train_results |-> train_results_vec,
     test_votes |-> FromVec2(test_votes_vec,
                             Len(test_votes_vec) \div VOTE_DIM, VOTE_DIM),
     test_results |-> test_results_vec]

\* The forward passes the program makes, tabulated once: the three inputs it
\* ever feeds to a model, for every parameter set a model can hold.
ForwardInputs ==
    {BuildDataset.train_votes, BuildDataset.test_votes,
     FromVec2(real_world_votes, 1, VOTE_DIM)}
\* (f @@ <<>> is f written out as a table)
ForwardTable ==
    [mdl \in MLPNew |->
        [xs \in ForwardInputs |-> Forward(mdl, xs)] @@ <<>>] @@ <<>>
ModelForward(mdl, xs) == ForwardTable[mdl][xs]

\* the shapes main asks Tensor::from_vec for all fit their buffers
DatasetShapesFit ==
    /\ ShapeFits(train_votes_vec, Len(train_votes_vec) \div VOTE_DIM, VOTE_DIM)
    /\ Len(train_results_vec) = Len(train_votes_vec) \div VOTE_DIM
    /\ ShapeFits(test_votes_vec, Len(test_votes_vec) \div VOTE_DIM, VOTE_DIM)

\* lines 84-92 of train: sum_ok and the accuracy in percent
SumOk(test_logits, test_results) == SumEq(ArgMax(test_logits), test_results)
\* mutant: the percentage is computed in integer arithmetic
AccuracyTruncated(n_ok, n) == F32OfInt((100 * n_ok) \div n)
Accuracy(n_ok, n) == F32MulInt(100, F32Div(n_ok, n))
Hundred == F32OfInt(100)
\* the accuracies train can compute for its test rows, tabulated once
AccuracyTable ==
    [k \in 0..Len(test_results_vec) |->
        Accuracy(k, Len(test_results_vec))] @@ <<>>

\* mutant: the class is read from the logits, the argmax is skipped
PredictRawLogit(final_result) == final_result[1][1]
\* main lines 174-178: argmax, to_dtype, get(0), to_scalar
Predict(final_result) == ArgMax(final_result)[1]

\* mutant: the break is missing
EarlyStopNever(acc) == FALSE
\* line 102: the early stop of the epoch loop
EarlyStop(acc) == acc = Hundred
\* mutants of the post-loop decision: percent taken for a fraction; <= for <
NotTrainedEnoughFraction(acc) == F32Lt(acc, F32OfInt(1))
NotTrainedEnoughLe(acc) == F32Lt(acc, Hundred) \/ acc = Hundred
\* line 108: the post-loop decision
NotTrainedEnough(acc) == F32Lt(acc, Hundred)

\* ------------------------------------------------------------------ output
Line(kind, num, text) == [kind |-> kind, num |-> num, text |-> text]
TryingLine == Line("Trying", 0, "Trying to train neural network.")
EpochLine(e) == Line("Epoch", e, "")
ErrorLine(msg) == Line("Error", 0, msg)
VotesLine == Line("Votes", 0, "real_life_votes")
PredictionLine(r) == Line("Prediction", r, "neural_network_prediction_result")

NoResult == [tag |-> "None", msg |-> "", model |-> NoModel]
OkResult(mdl) == [tag |-> "Ok", msg |-> "", model |-> mdl]
ErrResult(msg) == [tag |-> "Err", msg |-> msg, model |-> NoModel]

Sat(n) == IF n < MaxAttempts THEN n + 1 ELSE MaxAttempts

\* ------------------------------------------------------------------- state
VARIABLES
    pc,             \* position of main / train
    dev,            \* the Device chosen by cuda_if_available
    m,              \* the Dataset
    attempts,       \* "Trying to train" lines printed so far (saturating)
    errors,         \* "Error:" lines printed so far (saturating)
    model,          \* train: the MultiLevelPerceptron under training
    epoch,          \* train: the loop variable
    final_accuracy, \* train: the f32 of line 67
    sum_ok,         \* train: correct test rows of the last evaluation
    updates,        \* train: backward steps taken in this attempt
    logits,         \* the output of the last forward pass
    res,            \* the Result returned by the last call of train
    trained_model,  \* main: the model the retry loop ended with
    result,         \* main: the predicted class
    inferences,     \* forward passes made by the inference step
    out,            \* stdout since the last "Trying to train" line
    exit            \* what main returned

vars == <<pc, dev, m, attempts, errors, model, epoch, final_accuracy, sum_ok,
          updates, logits, res, trained_model, result, inferences, out, exit>>

trainVars == <<model, epoch, final_accuracy, sum_ok, updates>>

Init ==
    /\ pc = "main_dev"
    /\ dev = "none"
    /\ m = NoDataset
    /\ attempts = 0
    /\ errors = 0
    /\ model = NoModel
    /\ epoch = 0
    /\ final_accuracy = F32Zero
    /\ sum_ok = 0
    /\ updates = 0
    /\ logits = <<>>
    /\ res = NoResult
    /\ trained_model = NoModel
    /\ result = -1
    /\ inferences = 0
    /\ out = <<>>
    /\ exit = "running"

\* main returns the error of a failed `?`
Fatal ==
    /\ pc' = "fatal"
    /\ exit' = "Err"

\* an error inside train: train returns Err(e), its locals are dropped
TrainFails(msg) ==
    /\ pc' = "match"
    /\ res' = ErrResult(msg)
    /\ model' = NoModel

\* main line 118
SelectDevice ==
    /\ pc = "main_dev"
    /\ \/ /\ dev' \in {"cpu", "cuda"}
          /\ pc' = "main_data"
          /\ exit' = exit
       \/ /\ Fatal
          /\ dev' = dev
    /\ UNCHANGED <<m, attempts, errors, trainVars, logits, res, trained_model,
                   result, inferences, out>>

\* main lines 120-150
MakeDataset ==
    /\ pc = "main_data"
    /\ \/ /\ DatasetShapesFit
          /\ m' = BuildDataset
          /\ pc' = "retry"
          /\ exit' = exit
       \/ /\ Fatal
          /\ m' = m
    /\ UNCHANGED <<dev, attempts, errors, trainVars, logits, res,
                   trained_model, result, inferences, out>>

\* mutant: the accuracy and the counters live outside the retry loop, so a
\* later attempt goes on from what the failed one left
TryTrainWarmStart ==
    /\ pc = "retry"
    /\ attempts' = Sat(attempts)
    /\ out' = <<TryingLine>>
    /\ \/ /\ model' \in MLPNew
          /\ IF attempts = 0
             THEN final_accuracy' = F32Zero /\ epoch' = 1 /\ updates' = 0
             ELSE UNCHANGED <<final_accuracy, epoch, updates>>
          /\ pc' = "train_epoch"
          /\ res' = NoResult
          /\ sum_ok' = 0
       \/ /\ TrainFails(BackendMsg)
          /\ UNCHANGED <<epoch, final_accuracy, sum_ok, updates>>
    /\ UNCHANGED <<dev, m, errors, logits, trained_model, result, inferences,
                   exit>>

\* main lines 153-155 and train lines 47-70: the attempt starts
TryTrain ==
    /\ pc = "retry"
    /\ attempts' = Sat(attempts)
    /\ out' = <<TryingLine>>
    /\ \/ /\ model' \in MLPNew
          /\ final_accuracy' = F32Zero
          /\ epoch' = 1
          /\ updates' = 0
          /\ pc' = IF 1 < EPOCHS + 1 THEN "train_epoch" ELSE "train_post"
          /\ res' = NoResult
          /\ sum_ok' = 0
       \/ /\ TrainFails(BackendMsg)
          /\ UNCHANGED <<epoch, final_accuracy, sum_ok, updates>>
    /\ UNCHANGED <<dev, m, errors, logits, trained_model, result, inferences,
                   exit>>

\* mutant: the first epoch is a warm-up, its step is not applied
TrainStepWarmUp ==
    /\ pc = "train_epoch"
    /\ \/ /\ logits' = ModelForward(model, m.train_votes)
          /\ IF epoch = 1
             THEN UNCHANGED <<model, updates>>
             ELSE model' \in BackwardStep(model) /\ updates' = updates + 1
          /\ pc' = "train_eval"
          /\ res' = res
       \/ /\ TrainFails(BackendMsg)
          /\ UNCHANGED <<logits, updates>>
    /\ UNCHANGED <<dev, m, attempts, errors, epoch, final_accuracy, sum_ok,
                   trained_model, result, inferences, out, exit>>

\* train lines 72-79: forward on the training rows, loss, one SGD step
TrainStep ==
    /\ pc = "train_epoch"
    /\ \/ /\ logits' = ModelForward(model, m.train_votes)
          /\ model' \in BackwardStep(model)
          /\ updates' = updates + 1
          /\ pc' = "train_eval"
          /\ res' = res
       \/ /\ TrainFails(BackendMsg)
          /\ UNCHANGED <<logits, updates>>
    /\ UNCHANGED <<dev, m, attempts, errors, epoch, final_accuracy, sum_ok,
                   trained_model, result, inferences, out, exit>>

\* mutant: forward is a recurrent cell, its output carries the first logit
\* of the call before
EvalRecurrent ==
    /\ pc = "train_eval"
    /\ \/ LET y == ModelForward(model, m.test_votes)
              h == IF logits = <<>> THEN 0 ELSE logits[1][1]
              test_logits == [i \in 1..Len(y) |->
                                [j \in 1..Len(y[i]) |-> y[i][j] + h]]
              ok == SumOk(test_logits, m.test_results)
              acc == AccuracyTable[ok]
          IN  /\ logits' = test_logits
              /\ sum_ok' = ok
              /\ final_accuracy' = acc
              /\ \/ /\ out' = Append(out, EpochLine(epoch))
                    /\ IF EarlyStop(acc)
                       THEN pc' = "train_post" /\ epoch' = epoch
                       ELSE IF epoch + 1 < EPOCHS + 1
                            THEN pc' = "train_epoch" /\ epoch' = epoch + 1
                            ELSE pc' = "train_post" /\ epoch' = epoch
                    /\ UNCHANGED <<res, model>>
                 \/ /\ TrainFails(BackendMsg)
                    /\ UNCHANGED <<out, epoch>>
       \/ /\ TrainFails(BackendMsg)
          /\ UNCHANGED <<logits, sum_ok, final_accuracy, out, epoch>>
    /\ UNCHANGED <<dev, m, attempts, errors, updates, trained_model, result,
                   inferences, exit>>

\* train lines 82-104: evaluation on the test rows, progress line, loop exit
\* (acc is Accuracy(ok, test_results.dims1()), read from its table)
Eval ==
    /\ pc = "train_eval"
    /\ \/ LET test_logits == ModelForward(model, m.test_votes)
              ok == SumOk(test_logits, m.test_results)
              acc == AccuracyTable[ok]
          IN  /\ logits' = test_logits
              /\ sum_ok' = ok
              /\ final_accuracy' = acc
              /\ \/ /\ out' = Append(out, EpochLine(epoch))
                    /\ IF EarlyStop(acc)
                       THEN pc' = "train_post" /\ epoch' = epoch
                       ELSE IF epoch + 1 < EPOCHS + 1
                            THEN pc' = "train_epoch" /\ epoch' = epoch + 1
                            ELSE pc' = "train_post" /\ epoch' = epoch
                    /\ UNCHANGED <<res, model>>
                 \/ \* loss.to_scalar fails inside println!
                    /\ TrainFails(BackendMsg)
                    /\ UNCHANGED <<out, epoch>>
       \/ /\ TrainFails(BackendMsg)
          /\ UNCHANGED <<logits, sum_ok, final_accuracy, out, epoch>>
    /\ UNCHANGED <<dev, m, attempts, errors, updates, trained_model, result,
                   inferences, exit>>

\* train lines 107-113: the post-loop decision
TrainReturn ==
    /\ pc = "train_post"
    /\ res' = IF NotTrainedEnough(final_accuracy)
              THEN ErrResult(NotTrainedMsg)
              ELSE OkResult(model)
    /\ model' = NoModel
    /\ pc' = "match"
    /\ UNCHANGED <<dev, m, attempts, errors, epoch, final_accuracy, sum_ok,
                   updates, logits, trained_model, result, inferences, out,
                   exit>>

\* mutant: backend errors end the program, only the accuracy failure retries
MatchResultBackendFatal ==
    /\ pc = "match"
    /\ IF res.tag = "Ok"
       THEN /\ trained_model' = res.model
            /\ pc' = "infer"
            /\ UNCHANGED <<out, errors, exit>>
       ELSE /\ out' = Append(out, ErrorLine(res.msg))
            /\ errors' = Sat(errors)
            /\ IF res.msg = BackendMsg THEN Fatal
               ELSE pc' = "retry" /\ exit' = exit
            /\ UNCHANGED trained_model
    /\ UNCHANGED <<dev, m, attempts, trainVars, logits, res, result,
                   inferences>>

\* mutant: the retry loop gives up after its second failure
MatchResultBounded ==
    /\ pc = "match"
    /\ IF res.tag = "Ok"
       THEN /\ trained_model' = res.model
            /\ pc' = "infer"
            /\ UNCHANGED <<out, errors, exit>>
       ELSE /\ out' = Append(out, ErrorLine(res.msg))
            /\ errors' = Sat(errors)
            /\ IF errors >= 1 THEN Fatal ELSE pc' = "retry" /\ exit' = exit
            /\ UNCHANGED trained_model
    /\ UNCHANGED <<dev, m, attempts, trainVars, logits, res, result,
                   inferences>>

\* mutant: the Err arm retries without printing the error
MatchResultSilent ==
    /\ pc = "match"
    /\ IF res.tag = "Ok"
       THEN /\ trained_model' = res.model
            /\ pc' = "infer"
            /\ UNCHANGED <<out, errors>>
       ELSE /\ pc' = "retry"
            /\ UNCHANGED <<out, errors, trained_model>>
    /\ UNCHANGED <<dev, m, attempts, trainVars, logits, res, result,
                   inferences, exit>>

\* main lines 155-164: the match on the Result of train
MatchResult ==
    /\ pc = "match"
    /\ IF res.tag = "Ok"
       THEN /\ trained_model' = res.model
            /\ pc' = "infer"
            /\ UNCHANGED <<out, errors>>
       ELSE /\ out' = Append(out, ErrorLine(res.msg))
            /\ errors' = Sat(errors)
            /\ pc' = "retry"
            /\ UNCHANGED trained_model
    /\ UNCHANGED <<dev, m, attempts, trainVars, logits, res, result,
                   inferences, exit>>

\* mutant: the prediction sits inside the retry loop, which is not left
InferenceInLoop ==
    /\ pc = "infer"
    /\ logits' = ModelForward(trained_model, FromVec2(real_world_votes, 1, VOTE_DIM))
    /\ inferences' = inferences + 1
    /\ result' = Predict(logits')
    /\ out' = out \o <<VotesLine, PredictionLine(result')>>
    /\ pc' = "retry"
    /\ UNCHANGED <<dev, m, attempts, errors, trainVars, res, trained_model,
                   exit>>

\* mutant: the inference step sits inside the match, its errors are printed
\* and retried like those of train
InferenceRetried ==
    /\ pc = "infer"
    /\ \/ /\ ShapeFits(real_world_votes, 1, VOTE_DIM)
          /\ LET final_result ==
                    ModelForward(trained_model, FromVec2(real_world_votes, 1, VOTE_DIM))
             IN  /\ logits' = final_result
                 /\ inferences' = inferences + 1
                 /\ result' = Predict(final_result)
                 /\ out' = out \o <<VotesLine, PredictionLine(result')>>
                 /\ pc' = "done"
                 /\ exit' = "Ok"
                 /\ errors' = errors
       \/ /\ pc' = "retry"
          /\ out' = Append(out, ErrorLine(BackendMsg))
          /\ errors' = Sat(errors)
          /\ UNCHANGED <<logits, inferences, result, exit>>
    /\ UNCHANGED <<dev, m, attempts, trainVars, res, trained_model>>

\* main lines 167-183: the inference step
Inference ==
    /\ pc = "infer"
    /\ \/ /\ ShapeFits(real_world_votes, 1, VOTE_DIM)
          /\ LET final_result ==
                    ModelForward(trained_model, FromVec2(real_world_votes, 1, VOTE_DIM))
             IN  /\ logits' = final_result
                 /\ inferences' = inferences + 1
                 /\ \/ /\ result' = Predict(final_result)
                       /\ out' = out \o <<VotesLine, PredictionLine(result')>>
                       /\ pc' = "done"
                       /\ exit' = "Ok"
                    \/ /\ Fatal
                       /\ UNCHANGED <<result, out>>
       \/ /\ Fatal
          /\ UNCHANGED <<logits, inferences, result, out>>
    /\ UNCHANGED <<dev, m, attempts, errors, trainVars, res, trained_model>>

Next ==
    \/ SelectDevice
    \/ MakeDataset
    \/ TryTrain
    \/ TrainStep
    \/ Eval
    \/ TrainReturn
    \/ MatchResult
    \/ Inference

Spec == Init /\ [][Next]_vars

\* ---------------------------------------------------------------- liveness
\* The program keeps executing (WF on Next).  The outcome "some epoch of the
\* attempt records 100%" is made of three steps, none of which is avoided
\* forever: the attempt is set up, an SGD step reaches parameters that
\* classify every test row, and the evaluation records and prints them.
TryTrainOk == TryTrain /\ pc' = "train_epoch"
StepToPerfect ==
    /\ TrainStep
    /\ pc' = "train_eval"
    /\ SumOk(ModelForward(model', m.test_votes), m.test_results) = Len(m.test_results)
EvalRecords100 == Eval /\ pc' = "train_post" /\ final_accuracy' = Hundred

LiveSpec ==
    /\ Init /\ [][Next]_vars
    /\ WF_vars(Next)
    /\ SF_vars(TryTrainOk)
    /\ SF_vars(StepToPerfect)
    /\ SF_vars(EvalRecords100)

TypeOK ==
    /\ pc \in {"main_dev", "main_data", "retry", "train_epoch", "train_eval",
               "train_post", "match", "infer", "done", "fatal"}
    /\ attempts \in 0..MaxAttempts
    /\ errors \in 0..MaxAttempts
    /\ epoch \in 0..EPOCHS
\* ------------------------------------------------------------------ claims
TrainPcs == {"train_epoch", "train_eval", "train_post"}
Last(s) == s[Len(s)]
EpochLines == SelectSeq(out, LAMBDA l : l.kind = "Epoch")
LinesOf(kind) == SelectSeq(out, LAMBDA l : l.kind = kind)
Correct(mdl) == SumOk(Forward(mdl, m.test_votes), m.test_results)

\* C1: the model handed to the inference step is the one returned by an
\* attempt whose last recorded accuracy was exactly 100% (it predicts every
\* test row correctly); train never returns Ok with a lower accuracy.
C1_OnlyPerfectModelUsed ==
    /\ res.tag = "Ok" =>
          /\ final_accuracy = Hundred
          /\ res.model \in MLPNew
          /\ Correct(res.model) = Len(m.test_results)
    /\ (pc \in {"infer", "done"} \/ inferences > 0 \/ trained_model # NoModel) =>
          /\ res.tag = "Ok"
          /\ trained_model = res.model
    /\ res.tag = "Err" => res.model = NoModel

\* a model is used for inference after an earlier attempt failed
C1_Witness ==
    /\ pc = "done"
    /\ errors >= 1
    /\ trained_model # NoModel

\* C2: an attempt runs epochs 1..EPOCHS only, at most EPOCHS of them, and
\* once an epoch has recorded exactly 100% the attempt is never again at a
\* position where a forward pass, an SGD step or a progress line happens.
C2_EpochLoopBoundedAndStops ==
    /\ pc \in TrainPcs => epoch \in 1..EPOCHS
    /\ updates <= EPOCHS
    /\ Len(EpochLines) <= EPOCHS
    /\ \A i \in 1..Len(EpochLines) : EpochLines[i].num = i
    /\ pc \in {"train_epoch", "train_eval"} => final_accuracy # Hundred
    /\ pc = "train_post" => updates = epoch /\ Len(EpochLines) = epoch
    /\ (pc = "train_post" /\ final_accuracy # Hundred) => epoch = EPOCHS

\* the loop stopped early, in epoch 3, on 100%
C2_Witness ==
    /\ pc = "train_post"
    /\ final_accuracy = Hundred
    /\ epoch = 3
    /\ updates = 3

\* C3: without a backend error, train returns the "not trained well enough"
\* error exactly when all EPOCHS epochs ran and the last one recorded less
\* than 100%, and returns the model exactly when the last epoch recorded 100%.
C3_PostLoopDecision ==
    (pc = "match" /\ res.msg # BackendMsg) =>
        /\ res.tag \in {"Ok", "Err"}
        /\ res.tag = "Err" <=>
              (Len(EpochLines) = EPOCHS /\ F32Lt(final_accuracy, Hundred))
        /\ res.tag = "Ok" <=>
              (final_accuracy = Hundred /\ Last(out) = EpochLine(epoch))
        /\ res.tag = "Err" => res.msg = NotTrainedMsg
        /\ res.tag = "Ok" => res.model # NoModel

\* the edge case: 100% first reached in the last epoch, the attempt succeeds
C3_Witness ==
    /\ pc = "match"
    /\ res.tag = "Ok"
    /\ epoch = EPOCHS
    /\ Len(EpochLines) = EPOCHS

\* C4: a failed attempt is logged as an Error line carrying its message and
\* is always followed by a new attempt; the retry loop is left only for the
\* inference step and only on Ok; a new attempt can always start.
C4_UnconditionalRetry ==
    /\ [](pc = "retry" => ENABLED TryTrain)
    /\ [][/\ (pc = "match" /\ res.tag = "Err") =>
                /\ pc' = "retry"
                /\ out' = Append(out, ErrorLine(res.msg))
          /\ (pc = "match" /\ pc' # "retry") =>
                (res.tag = "Ok" /\ pc' = "infer")
          /\ pc = "retry" =>
                (pc' \in TrainPcs \cup {"match"} /\ out' = <<TryingLine>>)]_vars

\* the driver is about to retry after at least two failures
C4_Witness ==
    /\ pc = "retry"
    /\ errors >= 2
    /\ Last(out) = ErrorLine(NotTrainedMsg)
\* C5 as stated: a backend error raised in an attempt ends the attempt at
\* once and the driver does not start another attempt because of it.
C5_BackendErrorNotRetried ==
    [][/\ (res' # res /\ res'.msg = BackendMsg) => pc' = "match"
       /\ (pc = "match" /\ res.msg = BackendMsg) => pc' # "retry"]_vars

\* C5 amended: a backend error raised in an attempt ends the attempt at once
\* (train returns it, the model is dropped, no further epoch runs), and the
\* retry loop treats it like any other failed attempt: it prints the Error
\* line with the error's message and goes on to a new attempt.
C5_BackendErrorRetried ==
    [][/\ (res' # res /\ res'.msg = BackendMsg) =>
             /\ pc \in {"retry"} \cup TrainPcs
             /\ pc' = "match"
             /\ res'.tag = "Err"
             /\ model' = NoModel
             /\ updates' = updates
             /\ out' \in {out, <<TryingLine>>}
       /\ (pc = "match" /\ res.msg = BackendMsg) =>
             /\ pc' = "retry"
             /\ out' = Append(out, ErrorLine(BackendMsg))
             /\ trained_model' = trained_model
             /\ exit' = "running"]_vars

\* a backend error that hit in the middle of an attempt has been logged and
\* the driver is about to start the next attempt
C5_Witness ==
    /\ pc = "retry"
    /\ Len(EpochLines) >= 1
    /\ Last(out) = ErrorLine(BackendMsg)

\* C7: the inference step runs at most once, only from a successful attempt
\* and on the model that attempt returned; a run that reaches the end of main
\* has run it exactly once; once it has run the program is at its end, so no
\* epoch and no attempt follows it.
C7_InferenceOnce ==
    /\ inferences \in {0, 1}
    /\ pc = "done" => (inferences = 1 /\ exit = "Ok")
    /\ pc = "infer" => (res.tag = "Ok" /\ trained_model = res.model)
    /\ inferences = 1 =>
          /\ pc \in {"done", "fatal"}
          /\ res.tag = "Ok"
          /\ trained_model = res.model
          /\ attempts >= 1
          /\ logits = Forward(res.model, <<real_world_votes>>)
    /\ pc \in {"done", "fatal"} => ~ ENABLED Next

\* the run ended after a failed and a successful attempt and one inference
C7_Witness ==
    /\ pc = "done"
    /\ inferences = 1
    /\ errors >= 1

\* C8: the recorded accuracy is 100 * k / n_test for the number k of test
\* rows whose argmax equals the label, 0 <= k <= n_test = 3: to two decimals
\* one of 0, 33.33, 66.67, 100, and exactly 100.0 iff k = 3.
C8_AccuracyGrid ==
    /\ sum_ok \in 0..3
    /\ Fmt2(final_accuracy) = RoundDiv(10000 * sum_ok, 3)
    /\ Fmt2(final_accuracy) \in {0, 3333, 6667, 10000}
    /\ final_accuracy = Hundred <=> sum_ok = 3
    /\ F32Lt(final_accuracy, Hundred) <=> sum_ok < 3
    /\ pc = "train_post" =>
          /\ Len(logits) = 3
          /\ sum_ok = Cardinality({r \in 1..3 :
                          ArgMaxRow(logits[r]) = m.test_results[r]})

\* an epoch recorded 66.67%: two of the three test rows right
C8_Witness ==
    /\ pc = "train_post"
    /\ sum_ok = 2
    /\ Fmt2(final_accuracy) = 6667

\* C9: the class printed for [13, 22] is one class index, 0 or 1.
C9_PredictionIsClass ==
    pc = "done" =>
        /\ result \in {0, 1}
        /\ Len(logits) = 1
        /\ result = ArgMaxRow(logits[1])
        /\ Last(out) = PredictionLine(result)

C9_Witness ==
    /\ pc = "done"
    /\ result \in {0, 1}
    /\ trained_model # NoModel

\* C10 as stated: the forward pass yields C = 3 logits per row.
C10_ThreeLogits ==
    logits # <<>> => \A r \in 1..Len(logits) : Len(logits[r]) = 3

Shape(ln, in_dim, out_dim) ==
    /\ Len(ln.weight) = out_dim
    /\ Len(ln.bias) = out_dim
    /\ \A o \in 1..out_dim : Len(ln.weight[o]) = in_dim

\* C10 amended: the forward pass maps n rows of 2 features to n rows of
\* C = RESULTS + 1 = 2 logits through Linear(2->4), ReLU, Linear(4->2), ReLU,
\* Linear(2->2); the argmax ranges over the 2 class indices 0 and 1.
C10_TwoLogits ==
    /\ \A mdl \in {model, trained_model} \ {NoModel} :
          /\ Shape(mdl.ln1, 2, 4)
          /\ Shape(mdl.ln2, 4, 2)
          /\ Shape(mdl.ln3, 2, 2)
    /\ logits # <<>> =>
          \A r \in 1..Len(logits) :
              Len(logits[r]) = 2 /\ ArgMaxRow(logits[r]) \in {0, 1}
    /\ pc = "train_eval" => Len(logits) = 8
    /\ pc = "train_post" => Len(logits) = 3
    /\ pc = "done" => Len(logits) = 1

\* the forward pass on the 8 training rows gave 8 rows of 2 logits
C10_Witness ==
    /\ pc = "train_eval"
    /\ Len(logits) = 8
    /\ Len(logits[1]) = 2
\* C6 as stated: every fair execution completes a successful attempt, runs
\* the inference step and ends.
C6_AlwaysPredicts == <>(pc = "done")

\* C6 amended: every fair execution ends; it ends with the prediction of a
\* model from an attempt that recorded 100%, unless a backend error in the
\* device selection, the dataset construction or the inference step ends
\* main first; and once an epoch has recorded 100% the attempt succeeds, the
\* retry loop is left and the inference step is entered.
C6_EventuallyEnds ==
    /\ <>(exit # "running")
    /\ (pc = "train_post" /\ final_accuracy = Hundred) ~>
            (pc \in {"done", "fatal"} /\ trained_model # NoModel)
    /\ [](exit = "Ok" =>
            (pc = "done" /\ inferences = 1 /\ final_accuracy = Hundred))
    /\ [](exit = "Err" =>
            (pc = "fatal" /\ (attempts = 0 \/ trained_model # NoModel)))

\* the run ended with a prediction after as many failures as are counted
C6_Witness ==
    /\ exit = "Ok"
    /\ errors = MaxAttempts
    /\ result \in {0, 1}
\* C11: attempts are isolated.  The step that starts an attempt finds no
\* model left from the attempt before (train's locals are dropped when it
\* returns) and sets freshly initialised parameters with no update applied,
\* epoch 1 and accuracy 0, whatever the attempt before left; the dataset is
\* the constructed one at every position from the retry loop on and no step
\* changes it once it is built.
C11_AttemptsIsolated ==
    /\ [](pc \in {"retry", "match", "infer", "done"} => model = NoModel)
    /\ [](pc \in {"retry", "match", "infer", "done"} \cup TrainPcs
             => m = BuildDataset)
    /\ [][m # NoDataset => m' = m]_vars
    /\ [][(pc = "retry" /\ pc' \in TrainPcs) =>
            /\ model' \in MLPNew
            /\ updates' = 0
            /\ epoch' = 1
            /\ final_accuracy' = F32Zero
            /\ sum_ok' = 0
            /\ res' = NoResult]_vars

\* a later attempt has just started, after one that failed
C11_Witness ==
    /\ pc = "train_epoch"
    /\ errors >= 1
    /\ Last(out) = TryingLine
    /\ res = NoResult
    /\ epoch = 1 /\ updates = 0 /\ final_accuracy = F32Zero
    /\ m = BuildDataset
C13_DatasetShape ==
    (m # NoDataset \/ pc \in {"retry", "match", "infer", "done"} \cup TrainPcs) =>
        /\ Len(m.train_votes) * 2 = Len(train_votes_vec)
        /\ Len(train_votes_vec) = 16
        /\ Len(m.train_votes) = 8
        /\ Len(m.test_votes) * 2 = Len(test_votes_vec)
        /\ Len(test_votes_vec) = 6
        /\ Len(m.test_votes) = 3
        /\ \A r \in 1..Len(m.train_votes) : Len(m.train_votes[r]) = VOTE_DIM
        /\ \A r \in 1..Len(m.test_votes) : Len(m.test_votes[r]) = VOTE_DIM
        /\ Len(m.train_results) = Len(m.train_votes)
        /\ Len(m.test_results) = Len(m.test_votes)
        /\ \A i \in 1..Len(m.train_results) : m.train_results[i] \in {0, 1}
        /\ \A i \in 1..Len(m.test_results) : m.test_results[i] \in {0, 1}

\* the dataset has just been constructed, its first and last train rows
\* and its last test row are those of the buffers
C13_Witness ==
    /\ pc = "retry"
    /\ attempts = 0
    /\ m.train_votes[1] = <<15, 10>>
    /\ m.train_votes[8] = <<31, 21>>
    /\ m.test_votes[3] = <<3, 10>>
    /\ m.train_results = train_results_vec
    /\ m.test_results = test_results_vec
\* C14: each epoch applies exactly one SGD update, before its evaluation.
\* The update count changes only by the step of an epoch (plus one) and by
\* the start of an attempt (to zero); epoch k begins with k - 1 updates and
\* is evaluated with k, so every evaluation, and every accuracy recorded,
\* is of parameters with at least one update; and a model returned Ok has
\* had as many updates as epochs ran and progress lines were printed,
\* between 1 and EPOCHS.
C14_OneUpdatePerEpoch ==
    /\ [][updates' # updates =>
            \/ pc = "train_epoch" /\ pc' = "train_eval" /\ updates' = updates + 1
            \/ pc = "retry" /\ updates' = 0]_vars
    /\ [](pc = "train_epoch" => updates = epoch - 1)
    /\ [](pc = "train_eval" => updates = epoch /\ epoch \in 1..EPOCHS)
    /\ [][(pc = "train_eval" /\ final_accuracy' # final_accuracy) =>
            /\ updates = epoch
            /\ updates >= 1
            /\ final_accuracy' = AccuracyTable[Correct(model)]]_vars
    /\ [](pc = "train_post" =>
            /\ updates = epoch
            /\ Len(EpochLines) = epoch
            /\ Last(out) = EpochLine(updates))
    /\ [](res.tag = "Ok" =>
            /\ updates \in 1..EPOCHS
            /\ updates = epoch
            /\ Len(EpochLines) = updates)

\* train has returned Ok after three epochs and three updates
C14_Witness ==
    /\ pc = "match"
    /\ res.tag = "Ok"
    /\ epoch = 3
    /\ updates = 3
    /\ Len(EpochLines) = 3
\* C15: stdout follows a fixed protocol.  What is printed from the latest
\* "Trying to train" line on is that line, once and first; then one progress
\* line per completed epoch, numbered 1, 2, ..., k; then nothing more while
\* the attempt runs or after it succeeded, exactly one "Error:" line with
\* the message of the attempt once it failed and before the next attempt
\* starts, and the two prediction lines, last, once main has ended normally.
\* Every attempt adds one "Trying to train" line and every failure one
\* "Error:" line, nothing else counts either; so at normal termination the
\* "Trying to train" lines are the "Error:" lines plus one (the counters
\* stop at MaxAttempts).
C15_OutputProtocol ==
    /\ [](attempts = 0 <=> out = <<>>)
    /\ [](out # <<>> =>
            /\ out[1] = TryingLine
            /\ Len(LinesOf("Trying")) = 1
            /\ \A i \in 1..Len(EpochLines) : out[i + 1] = EpochLine(i))
    /\ [](pc \in {"train_epoch", "train_eval"} => Len(EpochLines) = epoch - 1)
    /\ [](pc = "train_post" => Len(EpochLines) = epoch)
    /\ [](pc \in TrainPcs \cup {"match", "infer", "fatal"} =>
            Len(out) = IF attempts = 0 THEN 0 ELSE 1 + Len(EpochLines))
    /\ [](res.tag = "Ok" => LinesOf("Error") = <<>>)
    /\ []((pc = "retry" /\ attempts > 0) =>
            /\ res.tag = "Err"
            /\ out = <<TryingLine>> \o EpochLines \o <<ErrorLine(res.msg)>>)
    /\ [](pc = "done" =>
            /\ out = <<TryingLine>> \o EpochLines
                        \o <<VotesLine, PredictionLine(result)>>
            /\ attempts = Sat(errors))
    /\ [](pc = "retry" => attempts = errors)
    /\ [](pc \in TrainPcs \cup {"match", "infer"} => attempts = Sat(errors))
    /\ [][pc = "retry" /\ pc' # pc =>
            /\ out' = <<TryingLine>>
            /\ attempts' = Sat(attempts)
            /\ errors' = errors]_vars
    /\ [][pc = "match" /\ res.tag = "Err" =>
            /\ out' = Append(out, ErrorLine(res.msg))
            /\ errors' = Sat(errors)
            /\ attempts' = attempts
            /\ pc' = "retry"]_vars
    /\ [][attempts' # attempts => pc = "retry"]_vars
    /\ [][errors' # errors => pc = "match" /\ res.tag = "Err"]_vars

\* main has ended normally after one failed attempt and a successful one
\* of two epochs: two "Trying to train" lines and one "Error:" line
C15_Witness ==
    /\ pc = "done"
    /\ attempts = 2
    /\ errors = 1
    /\ out = <<TryingLine, EpochLine(1), EpochLine(2), VotesLine,
               PredictionLine(result)>>
\* C16: an error outside a training attempt ends main and is never retried.
\* A failure of the device selection or of the dataset construction ends
\* the program with that error before any attempt: nothing was printed and
\* nothing trained.  The inference step is left only to the end of main:
\* with the prediction, or, on an error, with that error, no line added, no
\* prediction made and the counters of the retry loop as they were.  The
\* retry loop is entered only from the dataset construction and from the
\* match on the Result of train, and nothing follows a fatal error.
C16_FatalOutsideAttempt ==
    /\ [][(pc \in {"main_dev", "main_data"} /\ exit' # exit) =>
            /\ pc' = "fatal"
            /\ exit' = "Err"
            /\ attempts' = 0
            /\ out' = <<>>]_vars
    /\ [][pc = "infer" =>
            /\ pc' \in {"done", "fatal"}
            /\ attempts' = attempts
            /\ errors' = errors]_vars
    /\ [][(pc = "infer" /\ pc' = "fatal") =>
            /\ exit' = "Err"
            /\ out' = out
            /\ result' = result]_vars
    /\ [][pc' = "retry" => pc \in {"main_data", "match", "retry"}]_vars
    /\ [][pc # "fatal"]_vars
    /\ [](exit = "Err" <=> pc = "fatal")
    /\ [](pc = "fatal" =>
            /\ result = -1
            /\ LinesOf("Prediction") = <<>>
            /\ LinesOf("Votes") = <<>>
            /\ (attempts = 0 =>
                    (out = <<>> /\ errors = 0 /\ updates = 0
                     /\ trained_model = NoModel /\ inferences = 0))
            /\ (attempts > 0 =>
                    (res.tag = "Ok" /\ trained_model = res.model
                     /\ Last(out) = EpochLine(epoch))))

\* the inference step failed after its forward pass, with the model of the
\* second attempt: main has ended with the error and without a prediction
C16_Witness ==
    /\ pc = "fatal"
    /\ exit = "Err"
    /\ attempts = 2
    /\ errors = 1
    /\ inferences = 1
    /\ trained_model \in MLPNew
====
